---------------------------- MODULE Spec2Model ----------------------------
(***************************************************************************)
(* A model of the 23andMe helper scripts:                                  *)
(*   - snpedia.py: the MediaWiki markup extraction functions, modelled on  *)
(*     texts that are sequences of one-character strings, with the         *)
(*     regular expressions evaluated the way Python's re module (the sre   *)
(*     engine of Python 2.7) evaluates them;                               *)
(*   - full_to_sqlite.py / sqlite_setup.py: populate_db running against    *)
(*     the schema of create_db_tables inside one sqlite3 transaction.      *)
(***************************************************************************)
EXTENDS Integers, Sequences, FiniteSets, TLC

VARIABLES
    text,      \* the markup passed to the extraction function (sequence of characters)
    doc,       \* the fields the markup text was written from (input descriptor)
    pc,        \* "ready", or the name of the extraction function that has returned
    result,    \* [kind, val]: the value the function returned
    raised,    \* the exception that left the function, "none" if it returned
    stdout,    \* what the function printed, in order
    db,        \* the committed content of the SQLite database
    tx,        \* the content seen inside the connection's open transaction
    lpc,       \* populate_db: "idle", "loading", "done" (committed), "exited" (sys.exit)
    person_id, \* populate_db: cur.lastrowid after the person insert
    args,      \* populate_db: the name and assembly build arguments
    log,       \* populate_db: what the call did so far (rows read, warnings)
    pre,       \* the committed database when the current populate_db call began
    ncalls     \* number of populate_db calls made so far

vars == <<text, doc, pc, result, raised, stdout,
          db, tx, lpc, person_id, args, log, pre, ncalls>>

markupVars == <<text, doc, pc, result, raised, stdout>>
loaderVars == <<db, tx, lpc, person_id, args, log, pre, ncalls>>

\* bounds of the loader model
MaxRows == 2
MaxCalls == 2

(***************************************************************************)
(* Strings                                                                 *)
(***************************************************************************)

\* The characters Python's \s and str.strip() treat as whitespace
\* (the vertical tab has no TLA+ escape and is left out).
Whitespace == {" ", "\t", "\n", "\r", "\f"}

Digits == {"0", "1", "2", "3", "4", "5", "6", "7", "8", "9"}

RECURSIVE Concat(_)
Concat(ss) == IF ss = << >> THEN << >> ELSE Head(ss) \o Concat(Tail(ss))

\* s[a:b] with 0 <= a, b (Python slice, offsets)
Slice(s, a, b) ==
    LET hi == IF b > Len(s) THEN Len(s) ELSE b
    IN  IF a >= hi THEN << >> ELSE SubSeq(s, a + 1, hi)

\* str.replace(ch, '') for a single character ch
RemoveChar(s, ch) == SelectSeq(s, LAMBDA c : c # ch)

\* str.startswith(prefix)
StartsWith(s, prefix) ==
    Len(s) >= Len(prefix) /\ SubSeq(s, 1, Len(prefix)) = prefix

RECURSIVE LStrip(_)
LStrip(s) == IF s # << >> /\ Head(s) \in Whitespace THEN LStrip(Tail(s)) ELSE s

RECURSIVE RStrip(_)
RStrip(s) ==
    IF s # << >> /\ s[Len(s)] \in Whitespace
    THEN RStrip(SubSeq(s, 1, Len(s) - 1)) ELSE s

\* str.strip()
Strip(s) == RStrip(LStrip(s))

Min(S) == CHOOSE x \in S : \A y \in S : x <= y

\* str.split(sep) for a single character sep: the pieces of s from index i on,
\* each running up to the next separator
RECURSIVE SplitFrom(_, _, _)
SplitFrom(s, sep, i) ==
    LET seps == {j \in i..Len(s) : s[j] = sep}
    IN  IF seps = {} THEN <<SubSeq(s, i, Len(s))>>
        ELSE <<SubSeq(s, i, Min(seps) - 1)>> \o SplitFrom(s, sep, Min(seps) + 1)

Split(s, sep) == SplitFrom(s, sep, 1)

(***************************************************************************)
(* Regular expressions.  Every pattern of snpedia.py has the shape         *)
(*     (?<=behind) head body tail (?=ahead) [ | <empty> ]                  *)
(* where behind, head, tail and ahead are sequences of pattern elements (a *)
(* character, or "\\s") and body is one of                                 *)
(*     "lazy"    .*?   (the dot does not match a newline)                  *)
(*     "lazyall" .*?   under re.DOTALL                                     *)
(*     "digits"  [0-9]*                                                    *)
(*     "ws"      \s*                                                       *)
(***************************************************************************)

ElemMatches(pe, c) == IF pe = "\\s" THEN c \in Whitespace ELSE c = pe

\* the elements of pat match the characters ending at offset p
LookBehind(s, p, pat) ==
    /\ p >= Len(pat)
    /\ \A i \in 1..Len(pat) : ElemMatches(pat[i], s[p - Len(pat) + i])

\* the elements of pat match the characters starting at offset p
LookingAt(s, p, pat) ==
    /\ p + Len(pat) <= Len(s)
    /\ \A i \in 1..Len(pat) : ElemMatches(pat[i], s[p + i])

\* .*? : the first offset e >= q at which the rest of the pattern matches,
\* provided the dot matches every character passed over (it does not match a
\* newline unless dotall); -1 if there is none
LazyEnd(s, q, rest, dotall) ==
    LET stops == {e \in q..Len(s) : LookingAt(s, e, rest)}
    IN  IF stops = {} THEN -1
        ELSE IF dotall \/ \A i \in (q + 1)..Min(stops) : s[i] # "\n" THEN Min(stops)
        ELSE -1

\* the end of the longest run of characters of class cls starting at offset q
RECURSIVE RunEnd(_, _, _)
RunEnd(s, q, cls) ==
    IF q < Len(s) /\ s[q + 1] \in cls THEN RunEnd(s, q + 1, cls) ELSE q

\* a greedy class*: the longest run first, then giving characters back
RECURSIVE GreedyEnd(_, _, _, _)
GreedyEnd(s, q, e, rest) ==
    IF LookingAt(s, e, rest) THEN e
    ELSE IF e <= q THEN -1
    ELSE GreedyEnd(s, q, e - 1, rest)

\* The offset at which a match of regex starting at offset p ends, -1 if the
\* regex does not match at p.
MatchEnd(regex, s, p) ==
    LET rest == regex.tail \o regex.ahead
        q    == p + Len(regex.head)
        e    == IF ~(LookBehind(s, p, regex.behind) /\ LookingAt(s, p, regex.head))
                THEN -1
                ELSE CASE regex.body = "lazy"    -> LazyEnd(s, q, rest, FALSE)
                       [] regex.body = "lazyall" -> LazyEnd(s, q, rest, TRUE)
                       [] regex.body = "digits"  ->
                              GreedyEnd(s, q, RunEnd(s, q, Digits), rest)
                       [] regex.body = "ws"      ->
                              GreedyEnd(s, q, RunEnd(s, q, Whitespace), rest)
    IN  IF e >= 0 THEN e + Len(regex.tail)
        ELSE IF regex.orEmpty THEN p
        ELSE -1

NoMatch == [start |-> -1, end |-> -1]

\* sre_search: the leftmost match starting at an offset >= from
re_search_from(regex, s, from) ==
    LET here   == IF from <= Len(s) THEN MatchEnd(regex, s, from) ELSE -1
        starts == {p \in (from + 1)..Len(s) : MatchEnd(regex, s, p) >= 0}
    IN  IF here >= 0 THEN [start |-> from, end |-> here]
        ELSE IF starts = {} THEN NoMatch
        ELSE [start |-> Min(starts), end |-> MatchEnd(regex, s, Min(starts))]

\* re.search(regex, s): the match object, or NoMatch for None
re_search(regex, s) == re_search_from(regex, s, 0)

\* re.findall(regex, s) for a pattern without groups: the matched strings.
\* After an empty match the scan resumes one character further on.
RECURSIVE re_findall_from(_, _, _)
re_findall_from(regex, s, from) ==
    LET m == re_search_from(regex, s, from)
    IN  IF from > Len(s) \/ m.start < 0 THEN << >>
        ELSE <<Slice(s, m.start, m.end)>> \o
             re_findall_from(regex, s, IF m.end = m.start THEN m.end + 1 ELSE m.end)

re_findall(regex, s) == re_findall_from(regex, s, 0)

\* re.subn(regex, '', s)[0]: s without the matched spans.  i is the offset up
\* to which s has been copied.
RECURSIVE re_sub_from(_, _, _, _)
re_sub_from(regex, s, from, i) ==
    LET m == re_search_from(regex, s, from)
    IN  IF from > Len(s) \/ m.start < 0 THEN Slice(s, i, Len(s))
        ELSE Slice(s, i, m.start) \o
             re_sub_from(regex, s, IF m.end = m.start THEN m.end + 1 ELSE m.end, m.end)

re_subn_empty(regex, s) == re_sub_from(regex, s, 0, 0)

Regex(behind, head, body, tail, ahead, orEmpty) ==
    [behind |-> behind, head |-> head, body |-> body, tail |-> tail,
     ahead |-> ahead, orEmpty |-> orEmpty]

(***************************************************************************)
(* Values returned and printed                                             *)
(***************************************************************************)

None == [kind |-> "None", val |-> << >>]
Unset == [kind |-> "unset", val |-> << >>]
ListOf(v) == [kind |-> "list", val |-> v]
StrOf(v) == [kind |-> "str", val |-> v]
TableOf(g, d) == [kind |-> "table", val |-> [genotypes |-> g, diversity |-> d]]

Note(msg) == [kind |-> "note", msg |-> msg, data |-> << >>]
Data(v) == [kind |-> "data", msg |-> "", data |-> v]

\* what a call leaves behind: the returned value, the exception, the output
Outcome(ret, exc, out) == [ret |-> ret, exc |-> exc, out |-> out]
Returns(ret, out) == Outcome(ret, "none", out)
Raises(exc, out) == Outcome(Unset, exc, out)


(***************************************************************************)
(* snpedia.py: the extraction functions                                    *)
(***************************************************************************)

\* '\}\}\s*\{\{|'
regex_adjacent == Regex(<< >>, <<"}", "}">>, "ws", <<"{", "{">>, << >>, TRUE)

\* the same pattern without re.DOTALL
regex_template_no_dotall ==
    Regex(<< >>, <<"{", "{">>, "lazy", <<"}", "}">>, << >>, FALSE)

\* '\{\{.*?\}\}' with flags=re.DOTALL
regex_template == Regex(<< >>, <<"{", "{">>, "lazyall", <<"}", "}">>, << >>, FALSE)

clean_mediawiki_markup(t) ==
    LET newtext1 == RemoveChar(RemoveChar(t, "["), "]")
        newtext2 == re_subn_empty(regex_adjacent, newtext1)
        newtext3 == re_subn_empty(regex_template, newtext2)
    IN  Returns(StrOf(newtext3), << >>)

\* '(?<=\{\{PMID\|)[0-9]*(?=\}\})'
regex1 == Regex(<<"{", "{", "P", "M", "I", "D", "|">>, << >>, "digits", << >>,
                <<"}", "}">>, FALSE)

\* '(?<=PMID=)[0-9]*'
regex2 == Regex(<<"P", "M", "I", "D", "=">>, << >>, "digits", << >>, << >>, FALSE)

\* the two conventions collected in the other order
get_pmids_keyed_first(t) ==
    LET accessions == re_findall(regex2, t)
    IN  Returns(ListOf(accessions \o re_findall(regex1, t)), << >>)

get_pmids_from_mediawiki_markup(t) ==
    LET accessions == re_findall(regex1, t)
    IN  Returns(ListOf(accessions \o re_findall(regex2, t)), << >>)

\* "(?<=\{\{\spopulation\sdiversity\|\s).*?(?=HapMap)"
regex_popdiv ==
    Regex(<<"{", "{", "\\s", "p", "o", "p", "u", "l", "a", "t", "i", "o", "n", "\\s",
            "d", "i", "v", "e", "r", "s", "i", "t", "y", "|", "\\s">>,
          << >>, "lazy", << >>, <<"H", "a", "p", "M", "a", "p">>, FALSE)

\* the text with its newlines left in
popdiv_haystack_raw(t) == t

\* the text the diversity regex is searched in
popdiv_haystack(t) == RemoveChar(t, "\n")

\* a dict as a function; d[k] = v
EmptyDict == << >>
DictSet(d, k, v) == [x \in (DOMAIN d) \cup {k} |-> IF x = k THEN v ELSE d[x]]

\* for gt in gdata: g, b = gt.split('='); genotypes[g] = b
\* (unpacking anything but two pieces raises ValueError)
RECURSIVE genotype_loop(_, _, _)
genotype_loop(gdata, i, genotypes) ==
    IF i > Len(gdata) THEN [ok |-> TRUE, d |-> genotypes]
    ELSE LET parts == Split(gdata[i], "=")
         IN  IF Len(parts) # 2 THEN [ok |-> FALSE, d |-> genotypes]
             ELSE genotype_loop(gdata, i + 1, DictSet(genotypes, parts[1], parts[2]))

\* tuple(ddata[idx:idx+k]): the window taken one field early
diversity_row_early(ddata, idx, k) == Slice(ddata, idx, idx + k)

\* tuple(ddata[idx+1:idx+1+k])
diversity_row(ddata, idx, k) == Slice(ddata, idx + 1, idx + 1 + k)

\* for idx in range(0, len(ddata), len(genotypes)+1):
\*     diversity[ddata[idx]] = tuple(ddata[idx+1:idx+1+len(genotypes)])
RECURSIVE diversity_loop(_, _, _, _)
diversity_loop(ddata, idx, k, diversity) ==
    IF idx >= Len(ddata) THEN diversity
    ELSE diversity_loop(ddata, idx + k + 1, k,
                        DictSet(diversity, ddata[idx + 1], diversity_row(ddata, idx, k)))

NotePopDiv == Note("Did not find population diversity data for this SNP")

get_population_diversity_from_mediawiki_markup(t) ==
    LET hay  == popdiv_haystack(t)
        data == re_search(regex_popdiv, hay)
    IN  IF data.start < 0 THEN Returns(None, <<NotePopDiv>>)
        ELSE
        LET split == Split(Slice(hay, data.start, data.end), "|")
            match == [i \in 1..Len(split) |-> Strip(split[i])]
            geno  == <<"g", "e", "n", "o">>
            gdata == SelectSeq(match, LAMBDA e : StartsWith(e, geno))
            ddata == SelectSeq(match, LAMBDA e : ~StartsWith(e, geno) /\ Len(e) # 0)
            gl    == genotype_loop(gdata, 1, EmptyDict)
        IN  IF ~gl.ok THEN Raises("ValueError", << >>)
            ELSE Returns(TableOf(gl.d,
                                 diversity_loop(ddata, 0, Cardinality(DOMAIN gl.d),
                                                EmptyDict)),
                         <<Data(ddata)>>)

\* "(?<=\{\{PharmGKB\|).*?(?=\}\})"
regex_pharmgkb ==
    Regex(<<"{", "{", "P", "h", "a", "r", "m", "G", "K", "B", "|">>, << >>, "lazy",
          << >>, <<"}", "}">>, FALSE)

\* "(?<=\{\{omim\|).*?(?=\}\})"
regex_omim ==
    Regex(<<"{", "{", "o", "m", "i", "m", "|">>, << >>, "lazy", << >>, <<"}", "}">>,
          FALSE)

\* "\{\{Rsnum\|.*?(?=\}\})": the marker matched instead of looked behind
regex_rsnum_consuming ==
    Regex(<< >>, <<"{", "{", "R", "s", "n", "u", "m", "|">>, "lazy", << >>,
          <<"}", "}">>, FALSE)

\* "(?<=\{\{Rsnum\|).*?(?=\}\})"
regex_rsnum ==
    Regex(<<"{", "{", "R", "s", "n", "u", "m", "|">>, << >>, "lazy", << >>,
          <<"}", "}">>, FALSE)

\* the text with its newlines left in
xref_haystack_raw(t) == t

\* the text the cross-reference and accession regexes are applied to
xref_haystack(t) == RemoveChar(t, "\n")

\* re.findall returns a list, which is never None
xref_findall(regex, t) == ListOf(re_findall(regex, xref_haystack(t)))

NotePharmGKB == Note("Did not find PharmGKB data for this SNP")
NoteOMIM == Note("Did not find OMIM data for this SNP")

get_pharmgkb_from_mediawiki_markup(t) ==
    LET data == xref_findall(regex_pharmgkb, t)
    IN  IF data.kind = "None" THEN Returns(None, <<NotePharmGKB>>)
        ELSE Returns(data, << >>)

get_omim_from_mediawiki_markup(t) ==
    LET data == xref_findall(regex_omim, t)
    IN  IF data.kind = "None" THEN Returns(None, <<NoteOMIM>>)
        ELSE Returns(data, << >>)

get_rsnum_from_mediawiki_markup(t) ==
    LET hay  == xref_haystack(t)
        data == re_search(regex_rsnum, hay)
    IN  IF data.start < 0 THEN Returns(None, <<NoteOMIM>>)
        ELSE Returns(StrOf(Slice(hay, data.start, data.end)), << >>)

(***************************************************************************)
(* sqlite_setup.py: the schema.  A database is its tables' rows; seq is    *)
(* the AUTOINCREMENT counter of person (sqlite_sequence).                  *)
(***************************************************************************)

EmptyDb == [person |-> {}, seq |-> 0, snp_location |-> {}, genotypes |-> {},
            person_gtype |-> {}]

\* the decimal numeral of an integer
DigitChars == <<"0", "1", "2", "3", "4", "5", "6", "7", "8", "9">>

RECURSIVE Numeral(_)
Numeral(n) ==
    IF n < 0 THEN <<"-">> \o Numeral(0 - n)
    ELSE IF n < 10 THEN <<DigitChars[n + 1]>>
    ELSE Numeral(n \div 10) \o <<DigitChars[(n % 10) + 1]>>

\* a value as stored: text, or an integer (written as its numeral)
TextVal(s) == [type |-> "text", v |-> s]
IntVal(n) == [type |-> "int", v |-> Numeral(n)]

\* the characters of a decimal literal and their values
DigitValue == ("0" :> 0) @@ ("1" :> 1) @@ ("2" :> 2) @@ ("3" :> 3) @@ ("4" :> 4) @@
              ("5" :> 5) @@ ("6" :> 6) @@ ("7" :> 7) @@ ("8" :> 8) @@ ("9" :> 9)

RECURSIVE DecimalValue(_)
DecimalValue(ds) ==
    IF ds = << >> THEN 0
    ELSE 10 * DecimalValue(SubSeq(ds, 1, Len(ds) - 1)) + DigitValue[ds[Len(ds)]]

Unsigned(s) == IF s # << >> /\ s[1] \in {"+", "-"} THEN Tail(s) ELSE s

\* the text is an optional sign and one or more digits
IsIntLiteral(s) ==
    Unsigned(s) # << >> /\ \A i \in 1..Len(Unsigned(s)) : Unsigned(s)[i] \in Digits

IntLiteralValue(s) ==
    IF s[1] = "-" THEN 0 - DecimalValue(Unsigned(s)) ELSE DecimalValue(Unsigned(s))

\* Python's int(text): blanks around the literal are ignored
int_parses(s) == IsIntLiteral(Strip(s))
int_value(s) == IntLiteralValue(Strip(s))

\* a column of INTEGER affinity stores a text that reads as an integer as that integer
IntegerAffinity(s) ==
    IF IsIntLiteral(Strip(s)) THEN IntVal(IntLiteralValue(Strip(s))) ELSE TextVal(s)

\* CREATE TABLE snp_location (..., PRIMARY KEY(snp_id, hg_version))
snp_location_conflict(d, r) ==
    \E x \in d.snp_location : x.snp_id = r.snp_id /\ x.hg_version = r.hg_version

\* CREATE TABLE genotypes (..., PRIMARY KEY(snp_id, genotype))
genotypes_conflict(d, r) ==
    \E x \in d.genotypes : x.snp_id = r.snp_id /\ x.genotype = r.genotype

\* CREATE TABLE person_gtype (..., PRIMARY KEY(person_id, snp_id, genotype))
person_gtype_conflict(d, r) ==
    \E x \in d.person_gtype :
        x.person_id = r.person_id /\ x.snp_id = r.snp_id /\ x.genotype = r.genotype

\* person_id INTEGER PRIMARY KEY AUTOINCREMENT: one more than the largest id ever used
next_person_id(d) == d.seq + 1

(***************************************************************************)
(* full_to_sqlite.py: populate_db, one row of the file at a time           *)
(***************************************************************************)

\* INSERT INTO person(name) VALUES (?)
insert_person(d, name) ==
    [d EXCEPT !.person = @ \cup {[person_id |-> next_person_id(d), name |-> name]},
              !.seq = next_person_id(d)]

snp_location_row(rsid, asmv, chrm, pos) ==
    [snp_id |-> rsid, hg_version |-> asmv, chromosome |-> chrm, position |-> pos]

genotypes_row(rsid, gt) == [snp_id |-> rsid, genotype |-> gt]

person_gtype_row(pid, rsid, gt) ==
    [person_id |-> pid, snp_id |-> IntegerAffinity(rsid), genotype |-> gt]

\* the three inserts of one data row; an IntegrityError of the first two is
\* logged as a warning, the statement having changed nothing
insert_snp_location(d, r) ==
    IF snp_location_conflict(d, r) THEN d
    ELSE [d EXCEPT !.snp_location = @ \cup {r}]

insert_genotype(d, r) ==
    IF genotypes_conflict(d, r) THEN d
    ELSE [d EXCEPT !.genotypes = @ \cup {r}]

insert_person_gtype(d, r) == [d EXCEPT !.person_gtype = @ \cup {r}]

\* "with conn:" left with every exception committing, as if none had been raised
conn_exit_commit(committed, working, exc) == working

\* "with conn:" is left: the transaction is committed if no exception is
\* passing through (SystemExit is one), rolled back otherwise
conn_exit(committed, working, exc) ==
    IF exc = "none" THEN working ELSE committed

LogEntry(kind, row) == [kind |-> kind, row |-> row]

\* populate_db up to the first row: open the file, insert the person
populate_db_begin(name, asmv, opens) ==
    /\ lpc \in {"idle", "done", "exited"}
    /\ ncalls < MaxCalls
    /\ ncalls' = ncalls + 1
    /\ pre' = db
    /\ args' = [name |-> name, asm |-> asmv]
    /\ log' = << >>
    /\ IF ~opens
       THEN /\ lpc' = "exited"
            /\ person_id' = 0
            /\ tx' = db
            /\ UNCHANGED db
       ELSE /\ lpc' = "loading"
            /\ person_id' = next_person_id(db)
            /\ tx' = insert_person(db, name)
            /\ UNCHANGED db
    /\ UNCHANGED markupVars

\* the loop body for one row of the file
populate_db_row(row) ==
    /\ lpc = "loading"
    /\ Len(log) < MaxRows
    /\ IF row = << >> \/ (~StartsWith(row[1], <<"#">>) /\
                          (Len(row) # 4 \/ ~int_parses(row[3])))
       THEN \* IndexError, ValueError: "Problem parsing SNP file", sys.exit(1)
            /\ log' = Append(log, LogEntry("parse error", row))
            /\ lpc' = "exited"
            /\ db' = conn_exit(db, tx, "SystemExit")
            /\ tx' = db'
       ELSE IF StartsWith(row[1], <<"#">>)
       THEN /\ log' = Append(log, LogEntry("comment", row))
            /\ UNCHANGED <<lpc, db, tx>>
       ELSE LET loc == snp_location_row(row[1], args.asm, row[2], int_value(row[3]))
                gen == genotypes_row(row[1], row[4])
                lnk == person_gtype_row(person_id, row[1], row[4])
                tx1 == insert_snp_location(tx, loc)
                tx2 == insert_genotype(tx1, gen)
            IN  IF person_gtype_conflict(tx2, lnk)
                THEN \* "Problem populating database at row", sys.exit(1)
                     /\ log' = Append(log, LogEntry("insert error", row))
                     /\ lpc' = "exited"
                     /\ db' = conn_exit(db, tx2, "SystemExit")
                     /\ tx' = db'
                ELSE /\ log' = Append(log, LogEntry("data", row))
                     /\ tx' = insert_person_gtype(tx2, lnk)
                     /\ UNCHANGED <<lpc, db>>
    /\ UNCHANGED <<person_id, args, pre, ncalls>>
    /\ UNCHANGED markupVars

\* the file is read to its end: both with-blocks are left normally
populate_db_end ==
    /\ lpc = "loading"
    /\ lpc' = "done"
    /\ db' = conn_exit(db, tx, "none")
    /\ tx' = db'
    /\ UNCHANGED <<person_id, args, log, pre, ncalls>>
    /\ UNCHANGED markupVars

(***************************************************************************)
(* Calling an extraction function on the markup text                       *)
(***************************************************************************)

Call(name, out) ==
    /\ pc = "ready"
    /\ pc' = name
    /\ result' = out.ret
    /\ raised' = out.exc
    /\ stdout' = out.out
    /\ UNCHANGED <<text, doc>>
    /\ UNCHANGED loaderVars

CallClean == Call("clean", clean_mediawiki_markup(text))
CallPmids == Call("pmids", get_pmids_from_mediawiki_markup(text))
CallDiversity == Call("diversity", get_population_diversity_from_mediawiki_markup(text))
CallPharmgkb == Call("pharmgkb", get_pharmgkb_from_mediawiki_markup(text))
CallOmim == Call("omim", get_omim_from_mediawiki_markup(text))
CallRsnum == Call("rsnum", get_rsnum_from_mediawiki_markup(text))

(***************************************************************************)
(* Inputs                                                                  *)
(***************************************************************************)

SeqsUpTo(S, n) == UNION {[1..k -> S] : k \in 0..n}

NoArgs == [name |-> "", asm |-> ""]

LoaderIdle ==
    /\ db = EmptyDb
    /\ tx = EmptyDb
    /\ lpc = "idle"
    /\ person_id = 0
    /\ args = NoArgs
    /\ log = << >>
    /\ pre = EmptyDb
    /\ ncalls = 0

MarkupReady ==
    /\ pc = "ready"
    /\ result = Unset
    /\ raised = "none"
    /\ stdout = << >>

\* Citation markup: texts of up to MaxCiteFrags fragments
MaxCiteFrags == 5

CiteFrags ==
    { <<"{", "{", "P", "M", "I", "D", "|">>,
      <<"{", "{", "P", "M", "I", "D", " ", "A", "u", "t", "o", "|">>,
      <<"P", "M", "I", "D", "=">>,
      <<"}", "}">>,
      <<"1">>,
      <<"2", "3">>,
      <<"|", "x", "\n">> }

InitCite ==
    /\ doc \in SeqsUpTo(CiteFrags, MaxCiteFrags)
    /\ text = Concat(doc)
    /\ MarkupReady
    /\ LoaderIdle

NextCite == CallPmids

SpecCite == InitCite /\ [][NextCite]_vars


\* Cross-reference and accession markup: texts of up to MaxXrefFrags fragments
MaxXrefFrags == 5

OmimMarker == <<"{", "{", "o", "m", "i", "m", "|">>
PharmGKBMarker == <<"{", "{", "P", "h", "a", "r", "m", "G", "K", "B", "|">>
RsnumMarker == <<"{", "{", "R", "s", "n", "u", "m", "|">>
Close == <<"}", "}">>

XrefFrags ==
    { OmimMarker, PharmGKBMarker, RsnumMarker, Close, <<"}">>, <<"a">>, <<"\n">> }

InitXref ==
    /\ doc \in SeqsUpTo(XrefFrags, MaxXrefFrags)
    /\ text = Concat(doc)
    /\ MarkupReady
    /\ LoaderIdle

NextXref == CallPharmgkb \/ CallOmim \/ CallRsnum

SpecXref == InitXref /\ [][NextXref]_vars

\* Prose with links and templates: texts of up to MaxCleanFrags fragments,
\* and the example sentence
MaxCleanFrags == 5

CleanFrags ==
    { <<"[">>, <<"]">>, <<"{", "{">>, <<"}", "}">>, <<"{">>, <<"}">>, <<" ">>,
      <<"\n">>, <<"a">> }

CleanExample ==
    << <<"S", "e", "e", " ">>, <<"[">>, <<"[">>,
       <<"r", "s", "7", "3", "7", "8", "6", "5">>, <<"]">>, <<"]">>,
       <<" ", "a", "n", "d", " ">>, <<"{", "{">>,
       <<"P", "M", "I", "D", "|", "1", "2", "3">>, <<"}", "}">>,
       <<" ", "f", "o", "r", " ", "d", "e", "t", "a", "i", "l", "s">> >>

InitClean ==
    /\ doc \in SeqsUpTo(CleanFrags, MaxCleanFrags) \cup {CleanExample}
    /\ text = Concat(doc)
    /\ MarkupReady
    /\ LoaderIdle

NextClean == CallClean

SpecClean == InitClean /\ [][NextClean]_vars

\* Population diversity markup: a head (the text up to and including the opening
\* marker), up to MaxDivFields fields joined by "|", and a tail (the closing token
\* and what follows).  Every field records what it was written to mean.
MaxDivFields == 5

GenoField(raw, label, value) == [raw |-> raw, kind |-> "geno", a |-> label, b |-> value]
CandField(raw, value) == [raw |-> raw, kind |-> "cand", a |-> value, b |-> << >>]
BareGenoField(raw) == [raw |-> raw, kind |-> "baregeno", a |-> << >>, b |-> << >>]

Geno1 == GenoField(<<" ", "g", "e", "n", "o", "1", "=", "(", "A", ";", "A", ")", " ">>,
                   <<"g", "e", "n", "o", "1">>, <<"(", "A", ";", "A", ")">>)
Geno2 == GenoField(<<"g", "e", "n", "o", "2", "=", "(", "A", ";", "G", ")">>,
                   <<"g", "e", "n", "o", "2">>, <<"(", "A", ";", "G", ")">>)
Geno3Bare == BareGenoField(<<" ", "g", "e", "n", "o", "3", " ">>)
CEU == CandField(<<" ", "C", "E", "U", " ">>, <<"C", "E", "U">>)
Pct40 == CandField(<<" ", "4", "0", "%", " ">>, <<"4", "0", "%">>)
Pct60 == CandField(<<"6", "0", "%", "\t">>, <<"6", "0", "%">>)

DivFields == {Geno1, Geno2, CEU, Pct40, Pct60}

\* the field lists: any fields, or a genotype field without "=" and any fields
DivFieldLists ==
    SeqsUpTo(DivFields, MaxDivFields) \cup
    {<<Geno3Bare>> \o fs : fs \in SeqsUpTo(DivFields, MaxDivFields - 1)}

SpaceMarker ==
    <<"{", "{", " ", "p", "o", "p", "u", "l", "a", "t", "i", "o", "n", " ",
      "d", "i", "v", "e", "r", "s", "i", "t", "y", "|", " ">>
TabMarker ==
    <<"x", " ", "{", "{", "\t", "p", "o", "p", "u", "l", "a", "t", "i", "o", "n", "\r",
      "d", "i", "v", "e", "r", "s", "i", "t", "y", "|", "\t">>
TwoLineMarker ==
    <<"{", "{", " ", "p", "o", "p", "u", "l", "\n", "a", "t", "i", "o", "n", " ",
      "d", "i", "v", "e", "r", "s", "i", "t", "y", "|", " ">>
NoSpaceMarker ==
    <<"{", "{", "p", "o", "p", "u", "l", "a", "t", "i", "o", "n", " ",
      "d", "i", "v", "e", "r", "s", "i", "t", "y", "|">>

HapMap == <<"H", "a", "p", "M", "a", "p">>
HapMapTail == <<" ", "|", " ", "H", "a", "p", "M", "a", "p">>
TwoLineHapMapTail ==
    <<"H", "a", "p", "\n", "M", "a", "p", " ", "|", " ", "Y", "R", "I", "}", "}">>
LowerCaseTail == <<" ", "|", " ", "H", "a", "p", "m", "a", "p">>

\* the (head, tail) pairs the fields are written between
DivFrames ==
    { <<SpaceMarker, HapMapTail>>,
      <<TabMarker, HapMapTail>>,
      <<TwoLineMarker, TwoLineHapMapTail>>,
      <<SpaceMarker, LowerCaseTail>>,
      <<NoSpaceMarker, HapMapTail>> }

RECURSIVE JoinRaw(_)
JoinRaw(fields) ==
    IF fields = << >> THEN << >>
    ELSE IF Len(fields) = 1 THEN fields[1].raw
    ELSE fields[1].raw \o <<"|">> \o JoinRaw(Tail(fields))

InitDiv ==
    /\ \E f \in DivFrames, fs \in DivFieldLists :
           doc = [head |-> f[1], tail |-> f[2], fields |-> fs]
    /\ text = doc.head \o JoinRaw(doc.fields) \o doc.tail
    /\ MarkupReady
    /\ LoaderIdle

NextDiv == CallDiversity

SpecDiv == InitDiv /\ [][NextDiv]_vars

\* Genotype files: up to MaxRows rows per file, MaxCalls runs of the loader
Names == {"ann", "bob"}
Builds == {"36", "37"}

rs1 == <<"r", "s", "1">>
rs2 == <<"7">>

FileRows ==
    { << <<"#", " ", "r", "s", "i", "d">> >>,
      <<rs1, <<"1">>, <<"1", "0">>, <<"A", "A">>>>,
      <<rs1, <<"1">>, <<"1", "0">>, <<"A", "G">>>>,
      <<rs2, <<"X">>, <<" ", "7">>, <<"A", "A">>>>,
      <<rs1, <<"1">>, <<"1", "0">>>>,
      <<rs2, <<"X">>, <<"1", "e", "3">>, <<"A", "G">>>>,
      << >> }

InitLoad ==
    /\ text = << >>
    /\ doc = << >>
    /\ MarkupReady
    /\ LoaderIdle

NextLoad ==
    \/ \E name \in Names, asmv \in Builds, opens \in BOOLEAN :
           populate_db_begin(name, asmv, opens)
    \/ \E row \in FileRows : populate_db_row(row)
    \/ populate_db_end

SpecLoad == InitLoad /\ [][NextLoad]_vars

(***************************************************************************)
(* Properties: what a text contains, said without the regex engine         *)
(***************************************************************************)

\* the literal lit occupies s[p:p+len(lit)]
Occurs(lit, s, p) ==
    p + Len(lit) <= Len(s) /\ SubSeq(s, p + 1, p + Len(lit)) = lit

\* the literal lit occupies s[p-len(lit):p]
EndsAt(lit, s, p) ==
    p >= Len(lit) /\ SubSeq(s, p - Len(lit) + 1, p) = lit

Contains(lit, s) == \E p \in 0..Len(s) : Occurs(lit, s, p)

RECURSIVE SortedSeq(_)
SortedSeq(S) == IF S = {} THEN << >> ELSE <<Min(S)>> \o SortedSeq(S \ {Min(S)})

\* the offsets >= p at which a "}}" starts
ClosesFrom(s, p) == {e \in p..Len(s) : Occurs(Close, s, e)}

\* The offsets at which the payload of a block {{Name|...}} starts: just after
\* a marker that has a "}}" somewhere after it, and not inside the payload of
\* a block that started further left.
BlockStarts(marker, s) ==
    {p \in 0..Len(s) :
        /\ EndsAt(marker, s, p)
        /\ ClosesFrom(s, p) # {}
        /\ ~\E p2 \in 0..(p - 1) :
               /\ EndsAt(marker, s, p2)
               /\ ClosesFrom(s, p2) # {}
               /\ p < Min(ClosesFrom(s, p2))}

PayloadAt(s, p) == SubSeq(s, p + 1, Min(ClosesFrom(s, p)))

Payloads(marker, s) ==
    LET starts == SortedSeq(BlockStarts(marker, s))
    IN  [i \in 1..Len(starts) |-> PayloadAt(s, starts[i])]

Unlined == RemoveChar(text, "\n")

Max(S) == CHOOSE x \in S : \A y \in S : y <= x

PmidMarker == <<"{", "{", "P", "M", "I", "D", "|">>
PmidAutoMarker == <<"{", "{", "P", "M", "I", "D", " ", "A", "u", "t", "o", "|">>
PmidKey == <<"P", "M", "I", "D", "=">>

\* the offset at which the digits starting at offset p end
DigitsEnd(s, p) == Max({e \in p..Len(s) : \A i \in (p + 1)..e : s[i] \in Digits})

DigitsAt(s, p) == SubSeq(s, p + 1, DigitsEnd(s, p))

\* the payload offsets of the blocks {{PMID|<digits>}}
PmidBlockStarts(s) ==
    {p \in 0..Len(s) : EndsAt(PmidMarker, s, p) /\ Occurs(Close, s, DigitsEnd(s, p))}

\* the offsets just after a "PMID=" that lies inside a {{PMID Auto|...}} block:
\* after its marker, with no "}}" in between
PmidAutoFieldStarts(s) ==
    {p \in 0..Len(s) :
        /\ EndsAt(PmidKey, s, p)
        /\ \E m \in 0..(p - Len(PmidKey)) :
              /\ EndsAt(PmidAutoMarker, s, m)
              /\ ~\E c \in m..(p - Len(PmidKey) - 2) : Occurs(Close, s, c)}

\* the offsets just after any "PMID="
PmidKeyEnds(s) == {p \in 0..Len(s) : EndsAt(PmidKey, s, p)}

DigitsAtAll(s, starts) ==
    [i \in 1..Len(SortedSeq(starts)) |-> DigitsAt(s, SortedSeq(starts)[i])]

C5_XrefPayloads ==
    /\ pc = "omim" =>
         /\ raised = "none"
         /\ result = ListOf(Payloads(OmimMarker, Unlined))
    /\ pc = "pharmgkb" =>
         /\ raised = "none"
         /\ result = ListOf(Payloads(PharmGKBMarker, Unlined))
    /\ pc \in {"omim", "pharmgkb"} =>
         \A i \in 1..Len(result.val) : ~Contains(Close, result.val[i])

\* C5 witness: a block whose marker and "}}" are on different lines is returned,
\* and so are two blocks of one text.
C5_Witness_MultiLine ==
    /\ pc = "omim"
    /\ text = OmimMarker \o <<"a", "\n">> \o Close
    /\ result = ListOf(<< <<"a">> >>)

\* C6 (as claimed): with no block of the template in the text the extractor
\* returns an empty sequence and prints its diagnostic note; with a block it
\* prints nothing.
C6_EmptyWithNote ==
    /\ (pc = "omim" /\ BlockStarts(OmimMarker, Unlined) = {}) =>
          (result = ListOf(<< >>) /\ stdout = <<NoteOMIM>>)
    /\ (pc = "pharmgkb" /\ BlockStarts(PharmGKBMarker, Unlined) = {}) =>
          (result = ListOf(<< >>) /\ stdout = <<NotePharmGKB>>)
    /\ (pc = "omim" /\ BlockStarts(OmimMarker, Unlined) # {}) => stdout = << >>
    /\ (pc = "pharmgkb" /\ BlockStarts(PharmGKBMarker, Unlined) # {}) => stdout = << >>

\* C7: the accession extractor returns the payload of the leftmost {{Rsnum|...}}
\* block of the text without its newlines, and only that one; with no such
\* block it returns None and prints a diagnostic note; it raises nothing.
C7_RsnumFirst ==
    pc = "rsnum" =>
        /\ raised = "none"
        /\ IF BlockStarts(RsnumMarker, Unlined) # {}
           THEN /\ result = StrOf(PayloadAt(Unlined, Min(BlockStarts(RsnumMarker, Unlined))))
                /\ stdout = << >>
           ELSE /\ result = None
                /\ Len(stdout) = 1
                /\ stdout[1].kind = "note"

\* C7 witness: two blocks, the first payload returned
C7_Witness_TwoBlocks ==
    /\ pc = "rsnum"
    /\ Cardinality(BlockStarts(RsnumMarker, Unlined)) = 2
    /\ result = StrOf(<<"a">>)

\* C8: the cleaned text holds no "[" and no "]", and no "{{" that is followed
\* anywhere later by "}}"; the example sentence is cleaned as documented.
C8_CleanNoBracketsNoTemplates ==
    pc = "clean" =>
        /\ result.kind = "str"
        /\ \A i \in 1..Len(result.val) : result.val[i] \notin {"[", "]"}
        /\ ~\E i \in 0..Len(result.val) :
              /\ Occurs(<<"{", "{">>, result.val, i)
              /\ ClosesFrom(result.val, i + 2) # {}
        /\ doc = CleanExample =>
              result.val = <<"S", "e", "e", " ", "r", "s", "7", "3", "7", "8", "6", "5",
                             " ", "a", "n", "d", " ", " ", "f", "o", "r", " ",
                             "d", "e", "t", "a", "i", "l", "s">>

\* C8 witness: a template spanning two lines and a link were removed
C8_Witness_Removed ==
    /\ pc = "clean"
    /\ text = <<"[", "{", "{", "\n", "}", "}">>
    /\ result = StrOf(<< >>)


\* C1 (as claimed): whenever a table is returned, every frequency tuple of the
\* diversity mapping is as long as the genotype mapping has labels.
C1_TupleLengths ==
    (pc = "diversity" /\ result.kind = "table") =>
        \A key \in DOMAIN result.val.diversity :
            Len(result.val.diversity[key]) = Cardinality(DOMAIN result.val.genotypes)

\* C2 (as claimed): no extraction function raises, whatever the text.
C2_NeverRaises == pc # "ready" => raised = "none"

\* the opening marker with any whitespace character where the pattern has \s
WsMarkerEndsAt(s, p) ==
    /\ p >= 25
    /\ SubSeq(s, p - 24, p - 23) = <<"{", "{">>
    /\ s[p - 22] \in Whitespace
    /\ SubSeq(s, p - 21, p - 12) = <<"p", "o", "p", "u", "l", "a", "t", "i", "o", "n">>
    /\ s[p - 11] \in Whitespace
    /\ SubSeq(s, p - 10, p - 1) = <<"d", "i", "v", "e", "r", "s", "i", "t", "y", "|">>
    /\ s[p] \in Whitespace

\* the marker "{{ population diversity| " as written, with blanks
SpaceMarkerEndsAt(s, p) == EndsAt(SpaceMarker, s, p)

\* an opening marker is followed, at once or later, by the token HapMap
RegionBetween(s, MarkerEnds, Tokens) ==
    \E p \in MarkerEnds : \E q \in Tokens : p <= q

RegionPresent(s) ==
    RegionBetween(s, {p \in 0..Len(s) : WsMarkerEndsAt(s, p)},
                     {q \in 0..Len(s) : Occurs(HapMap, s, q)})

SpaceRegionPresent(s) ==
    RegionBetween(s, {p \in 0..Len(s) : SpaceMarkerEndsAt(s, p)},
                     {q \in 0..Len(s) : Occurs(HapMap, s, q)})

\* the input descriptor's fields, as the claim names them
GenoFields == SelectSeq(doc.fields, LAMBDA f : f.kind = "geno")
Candidates == SelectSeq(doc.fields, LAMBDA f : f.kind = "cand")
WindowStarts ==
    {i \in 1..Len(Candidates) : (i - 1) % (Len(GenoFields) + 1) = 0}

WellFormedTable ==
    /\ RegionPresent(Unlined)
    /\ \A i \in 1..Len(doc.fields) : doc.fields[i].kind \in {"geno", "cand"}
    /\ \A i, j \in 1..Len(GenoFields) : GenoFields[i].a = GenoFields[j].a => i = j
    /\ Len(Candidates) % (Len(GenoFields) + 1) = 0
    /\ \A i, j \in WindowStarts : Candidates[i].a = Candidates[j].a => i = j

ExpectedGenotypes ==
    [label \in {GenoFields[i].a : i \in 1..Len(GenoFields)} |->
        GenoFields[CHOOSE i \in 1..Len(GenoFields) : GenoFields[i].a = label].b]

ExpectedDiversity ==
    [key \in {Candidates[i].a : i \in WindowStarts} |->
        LET i == CHOOSE i \in WindowStarts : Candidates[i].a = key
        IN  [j \in 1..Len(GenoFields) |-> Candidates[i + j].a]]

\* C4: for a region with k well-formed genotype fields of distinct labels and
\* n = m*(k+1) candidate fields with distinct population labels, the extractor
\* returns the genotype mapping label -> value and the diversity mapping from
\* the first field of every window to the tuple of the k fields after it.
C4_WindowedTable ==
    (pc = "diversity" /\ WellFormedTable) =>
        /\ raised = "none"
        /\ result = TableOf(ExpectedGenotypes, ExpectedDiversity)

\* C4 witness: the documented example
C4_Witness_Example ==
    /\ pc = "diversity"
    /\ doc.head = SpaceMarker
    /\ doc.fields = <<Geno1, Geno2, CEU, Pct40, Pct60>>
    /\ result = TableOf((Geno1.a :> Geno1.b) @@ (Geno2.a :> Geno2.b),
                        (CEU.a :> <<Pct40.a, Pct60.a>>))

\* C9 (as claimed): without the marker "{{ population diversity| " (spaces)
\* followed later by HapMap in the text without its newlines, no table is
\* returned; None comes with a diagnostic note and nothing is raised.
C9_SpaceMarkerOnly ==
    (pc = "diversity" /\ ~SpaceRegionPresent(Unlined)) =>
        (result = None /\ raised = "none" /\ stdout = <<NotePopDiv>>)

\* C9 (amended): the same with the marker's three blanks each being any
\* whitespace character; and a region whose marker or HapMap token was broken
\* over two lines of the text is found.
C9_NotFound ==
    pc = "diversity" =>
        IF RegionPresent(Unlined)
        THEN result # None /\ stdout # <<NotePopDiv>>
        ELSE result = None /\ raised = "none" /\ stdout = <<NotePopDiv>>

\* C9 witnesses: no region and None returned; a region over two lines found
C9_Witness_NotFound ==
    /\ pc = "diversity"
    /\ doc.head = SpaceMarker
    /\ doc.tail = LowerCaseTail
    /\ doc.fields = <<Geno1, CEU, Pct40>>
    /\ result = None


\* the rows of the file read so far that were loaded
DataRows == SelectSeq(log, LAMBDA e : e.kind = "data")

\* C10: populate_db is all-or-nothing.  While the file is being read and after
\* the call has exited at a bad row or a failing person_gtype insert, the
\* database holds exactly what it held before the call; once the file has been
\* read to its end it holds, on top of that, the new person and, for every data
\* row of the file, its snp_location, genotypes and person_gtype rows.
C10_AllOrNothing ==
    /\ lpc \in {"loading", "exited"} => db = pre
    /\ lpc = "done" =>
         /\ db.person = pre.person \cup {[person_id |-> person_id, name |-> args.name]}
         /\ \A x \in pre.person : x.person_id # person_id
         /\ pre.snp_location \subseteq db.snp_location
         /\ pre.genotypes \subseteq db.genotypes
         /\ pre.person_gtype \subseteq db.person_gtype
         /\ Cardinality(db.person_gtype) = Cardinality(pre.person_gtype) + Len(DataRows)
         /\ \A i \in 1..Len(DataRows) :
               LET row == DataRows[i].row
               IN  /\ \E x \in db.person_gtype :
                         /\ x.person_id = person_id
                         /\ x.genotype = row[4]
                         /\ x.snp_id.type = "text" => x.snp_id.v = row[1]
                   /\ \E g \in db.genotypes : g.snp_id = row[1] /\ g.genotype = row[4]
                   /\ \E l \in db.snp_location :
                         l.snp_id = row[1] /\ l.hg_version = args.asm

\* C10 witness: a second load exits at a repeated (rsid, genotype) row after
\* a first load was committed, and the database is as the first load left it
C10_Witness_AbortAfterRows ==
    /\ lpc = "exited"
    /\ ncalls = 2
    /\ pre # EmptyDb
    /\ Len(log) = 2
    /\ log[1].kind = "data"
    /\ log[2].kind = "insert error"
    /\ db = pre


\* a file's id as a TEXT column (snp_location.snp_id, genotypes.snp_id) stores it
StoredAsText(rsid) == TextVal(rsid)

\* the links of a database that resolve: the person exists, and genotypes and
\* snp_location hold a row whose snp_id, seen through view, is the link's snp_id
LinksResolve(d, view(_)) ==
    \A x \in d.person_gtype :
        /\ \E p \in d.person : p.person_id = x.person_id
        /\ \E g \in d.genotypes : view(g.snp_id) = x.snp_id /\ g.genotype = x.genotype
        /\ \E l \in d.snp_location : view(l.snp_id) = x.snp_id

\* no two rows of snp_location or of genotypes share their primary key
NoDuplicateRows(d) ==
    /\ \A x, y \in d.snp_location :
           (x.snp_id = y.snp_id /\ x.hg_version = y.hg_version) => x = y
    /\ \A x, y \in d.genotypes :
           (x.snp_id = y.snp_id /\ x.genotype = y.genotype) => x = y

\* the rows a call found are still there, unchanged, during and after it, and a
\* completed call has linked its person to every data row it read
ExistingRowsKept ==
    /\ NoDuplicateRows(db) /\ NoDuplicateRows(tx)
    /\ pre.snp_location \subseteq db.snp_location
    /\ pre.snp_location \subseteq tx.snp_location
    /\ pre.genotypes \subseteq db.genotypes
    /\ pre.genotypes \subseteq tx.genotypes
    /\ lpc = "done" =>
          \A i \in 1..Len(DataRows) :
              \E x \in db.person_gtype :
                  /\ x.person_id = person_id
                  /\ x.snp_id = IntegerAffinity(DataRows[i].row[1])
                  /\ x.genotype = DataRows[i].row[4]

\* the links resolve when the TEXT ids are read as the INTEGER column of
\* person_gtype reads them, where "7", "07" and " 7" are one id
LinksResolveUnderAffinity ==
    LinksResolve(db, IntegerAffinity) /\ ExistingRowsKept

\* C11: every committed person_gtype row has its person_id in person, its
\* (snp_id, genotype) in genotypes and its snp_id in snp_location, and a
\* snp_location or genotypes row that exists is neither changed nor duplicated
\* by a later load, which still links its person to the row's genotype.
C11_ReferentialIntegrity ==
    LinksResolve(db, StoredAsText) /\ ExistingRowsKept

=============================================================================
